---------------------------- MODULE Spec2Model ----------------------------
(***************************************************************************)
(* foremast: SpinnakerPipeline.create_pipeline and post_pipeline           *)
(* (src/src/foremast/pipeline/create_pipeline.py) as a state machine.      *)
(* One run of create_pipeline is: clean_pipelines, the environment/region  *)
(* matrix, one rendering step per region, one renumber-and-POST step per   *)
(* region, return True.  The remote orchestrator is the only durable       *)
(* state; a new run starts from whatever the previous run left there.      *)
(* render_wrapper is also taken on its own, statement by statement, and    *)
(* so are the entry points of src/src/foremast/runner.py, whose calls into *)
(* the other modules are taken to return.                                  *)
(***************************************************************************)
EXTENDS Integers, Sequences, FiniteSets, TLC

Envs == {"dev", "stage", "prod"}
Regions == {"us-east-1", "us-west-2"}

\* Bounds of the model.
MaxCopies == 2        \* generated pipelines the remote holds per region
MaxEnvList == 3       \* length of settings['pipeline']['env'] (matrix inputs)
MaxRegionList == 2    \* length of settings[env]['regions'] (matrix inputs)
VolumeMargin == 12    \* root_volume_size values tried on either side of the limit
MaxApps == 2          \* length of the list utils.get_all_apps() returns

\* render_wrapper refuses a root_volume_size above this.
MaxRootVolumeSize == 50

AppName == "forrest"
None == "None"

Range(s) == {s[i] : i \in DOMAIN s}
SeqsUpTo(S, n) == UNION {[1..k -> S] : k \in 0..n}
EmptyMap == [x \in {} |-> <<>>]

VARIABLES
  environments,     \* self.environments = settings['pipeline']['env']
  env_regions,      \* env |-> settings[env]['regions']
  subnets,          \* the (env, region) pairs get_subnets() has data for
  root_volume_size, \* settings['pipeline']['image']['root_volume_size']
  rejects,          \* regions whose POST the remote answers with a non-success status
  remote,           \* region |-> number of generated pipelines of the application
  pc,               \* position of the run
  completed,        \* steps of the run that have returned: "clean", "resolve"
  regions_envs,     \* the matrix of create_pipeline
  pipelines,        \* region |-> stage list, the pipelines dict of create_pipeline
  posts,            \* the POST requests of the run, in order, with their responses
  result,           \* what the run gave its caller
  repeat_ok         \* the previous run had this configuration and returned True

\* runner.py
VARIABLES
  entry,            \* the entry point that is running
  environ,          \* os.environ: ENV, REBUILD_PROJECT, PROJECT, GIT_REPO
  eureka_enabled,   \* configs[env]['app']['eureka_enabled']
  all_apps,         \* what utils.get_all_apps() returns
  rpc,              \* the next statement of the entry point, or the next app of its loop
  calls,            \* the calls the entry point has made, in order
  exit              \* how the entry point ended

config == <<environments, env_regions, subnets, root_volume_size, rejects>>
pipeline_vars == <<environments, env_regions, subnets, root_volume_size, rejects, remote,
                   pc, completed, regions_envs, pipelines, posts, result, repeat_ok>>
runner_vars == <<entry, environ, eureka_enabled, all_apps, rpc, calls, exit>>
vars == <<pipeline_vars, runner_vars>>

\* No entry point of runner.py is running.
NoRunner ==
  /\ entry = None
  /\ environ = [ENV |-> None, REBUILD_PROJECT |-> None, PROJECT |-> None, GIT_REPO |-> None]
  /\ eureka_enabled = FALSE
  /\ all_apps = <<>>
  /\ rpc = 0
  /\ calls = <<>>
  /\ exit = None

(***************************************************************************)
(* Matrix resolver: lines 144-147.                                         *)
(***************************************************************************)
\* regions_envs[region].append(env) on a defaultdict(list)
AppendEnvReversed(m, region, env) ==
  IF region \in DOMAIN m THEN [m EXCEPT ![region] = <<env>> \o @]
  ELSE m @@ (region :> <<env>>)

AppendEnv(m, region, env) ==
  IF region \in DOMAIN m THEN [m EXCEPT ![region] = Append(@, env)]
  ELSE m @@ (region :> <<env>>)

\* for region in self.settings[env]['regions']
RECURSIVE ForRegions(_, _, _)
ForRegions(m, env, regs) ==
  IF regs = <<>> THEN m
  ELSE ForRegions(AppendEnv(m, Head(regs), env), env, Tail(regs))

\* for env in pipeline_envs
RECURSIVE ForEnvs(_, _, _)
ForEnvs(m, envs, settings) ==
  IF envs = <<>> THEN m
  ELSE ForEnvs(ForRegions(m, Head(envs), settings[Head(envs)]), Tail(envs), settings)

Matrix(envs, settings) == ForEnvs(EmptyMap, envs, settings)


(***************************************************************************)
(* Fragments.  A stage keeps where it came from (frag, k, previous_env) as *)
(* its payload, and the two graph fields id and dependsOn.                 *)
(***************************************************************************)
Fragment(frag, prev, shape) ==
  [i \in 1..Len(shape) |->
    [frag |-> frag, k |-> i, previous_env |-> prev, id |-> i, dependsOn |-> shape[i]]]

\* pipeline_wrapper.json as rendered: two stages in sequence.
WrapperShape == <<{}, {1}>>

\* One environment's block as rendered: a list of stages numbered from 1.
BlockShape(env) ==
  CASE env = "dev" -> <<{}, {1}>>
    [] env = "stage" -> <<{}>>
    [] env = "prod" -> <<{}, {}>>

construct_pipeline_block(env, previous_env, region) ==
  Fragment(env, previous_env, BlockShape(env))

\* render_wrapper, lines 96-100: the root_volume_size check.
WrapperAcceptsLoose(size) == size <= MaxRootVolumeSize + 1

WrapperAccepts(size) == ~(size > MaxRootVolumeSize)

\* render_wrapper, lines 102-129: the rendered wrapper's stages.
render_wrapper(region) == Fragment("wrapper", None, WrapperShape)

\* lines 161-165: subnets[env][region] raises KeyError when either key is missing.
HasSubnets(subs, env, region) == <<env, region>> \in subs

\* line 176: pipelines[region]['stages'].extend(json.loads(block))
ExtendReplaces(stages, block) == block

ExtendPrepends(stages, block) == block \o stages

Extend(stages, block) == stages \o block

\* lines 159-178: the loop over the environments of one region.  A "break" in
\* place of the "continue" of line 165:
RECURSIVE ForBlocksBreak(_, _, _, _, _)
ForBlocksBreak(stages, envs, previous_env, region, subs) ==
  IF envs = <<>> THEN stages
  ELSE IF ~HasSubnets(subs, Head(envs), region) THEN stages
  ELSE ForBlocksBreak(
         Extend(stages, construct_pipeline_block(Head(envs), previous_env, region)),
         Tail(envs), Head(envs), region, subs)

\* "previous_env = env" moved from line 178 to the head of the loop body:
RECURSIVE ForBlocksSkippedIsPrevious(_, _, _, _, _)
ForBlocksSkippedIsPrevious(stages, envs, previous_env, region, subs) ==
  IF envs = <<>> THEN stages
  ELSE IF ~HasSubnets(subs, Head(envs), region)
       THEN ForBlocksSkippedIsPrevious(stages, Tail(envs), Head(envs), region, subs)
  ELSE ForBlocksSkippedIsPrevious(
         Extend(stages, construct_pipeline_block(Head(envs), previous_env, region)),
         Tail(envs), Head(envs), region, subs)

RECURSIVE ForBlocks(_, _, _, _, _)
ForBlocks(stages, envs, previous_env, region, subs) ==
  IF envs = <<>> THEN stages
  ELSE IF ~HasSubnets(subs, Head(envs), region)
       THEN ForBlocks(stages, Tail(envs), previous_env, region, subs)
  ELSE ForBlocks(
         Extend(stages, construct_pipeline_block(Head(envs), previous_env, region)),
         Tail(envs), Head(envs), region, subs)

\* lines 157-178: one region's pipeline before renumbering.
AssembleRegion(region, envs, subs) ==
  ForBlocks(render_wrapper(region), envs, None, region, subs)

(***************************************************************************)
(* renumerate_stages: offset renumbering with cross-fragment chaining, on  *)
(* the concatenated stage list.  A fragment starts at each stage whose     *)
(* local id is 1.                                                          *)
(***************************************************************************)
FragIndex(stages, i) == Cardinality({j \in 1..i : stages[j].id = 1})

Offset(stages, i) ==
  Cardinality({j \in 1..Len(stages) : FragIndex(stages, j) < FragIndex(stages, i)})

\* Stages of fragment f on which no stage of f depends, as global ids.
Terminals(stages, f) ==
  {j \in 1..Len(stages) :
     /\ FragIndex(stages, j) = f
     /\ \A m \in 1..Len(stages) :
          FragIndex(stages, m) = f => stages[j].id \notin stages[m].dependsOn}

Chain(stages, i) ==
  IF FragIndex(stages, i) > 1 /\ stages[i].dependsOn = {}
  THEN Terminals(stages, FragIndex(stages, i) - 1)
  ELSE {}

renumerate_stages(stages) ==
  [i \in 1..Len(stages) |->
    [stages[i] EXCEPT
       !.id = stages[i].id + Offset(stages, i),
       !.dependsOn = {d + Offset(stages, i) : d \in stages[i].dependsOn}
                       \cup Chain(stages, i)]]

(***************************************************************************)
(* post_pipeline, lines 48-76, and the remote's answers.                   *)
(***************************************************************************)
JsonA == "{\"error\":\"A\"}"
JsonB == "{\"error\":\"B\"}"
Html == "<html>502</html>"
ErrorBodies == {JsonA, JsonB, Html}

IsJson(text) == text # Html

\* pipeline_response.json(), then str.format of the decoded value.
ResponseJson(text) ==
  CASE text = JsonA -> "{'error': 'A'}"
    [] text = JsonB -> "{'error': 'B'}"

\* lines 70-73
PostFailureSwallowed(text) == [type |-> "none", args |-> <<>>]

PostFailureLogged(text) == [type |-> "returned", args |-> <<"True">>]

PostFailureFixedText(text) ==
  [type |-> "SpinnakerPipelineCreationFailed", args |-> <<AppName, "{'error': 'A'}">>]

PostFailure(text) ==
  IF IsJson(text)
  THEN [type |-> "SpinnakerPipelineCreationFailed",
        args |-> <<AppName, ResponseJson(text)>>]
  ELSE [type |-> "ValueError", args |-> <<>>]

NoResult == [type |-> "none", args |-> <<>>]
ReturnedTrue == [type |-> "returned", args |-> <<"True">>]
VolumeFailure == [type |-> "SpinnakerPipelineCreationFailed", args |-> <<"root_volume_size">>]
StaleConflict == [type |-> "StalePipelineConflictError", args |-> <<>>]

(***************************************************************************)
(* Configurations a run is constructed with (__init__, lines 45-46), and   *)
(* the remote's disposition towards this run's POST requests.              *)
(***************************************************************************)
AllPairs == Envs \X Regions
DeclaredEnvs == <<"dev", "stage", "prod">>
RunRegionLists == {<<>>, <<"us-east-1">>, <<"us-west-2">>, <<"us-east-1", "us-west-2">>}
\* get_subnets(): complete, or one environment without its us-east-1 entry.
SubnetChoices == {AllPairs} \cup {AllPairs \ {<<e, "us-east-1">>} : e \in Envs}
VolumeSizes == {MaxRootVolumeSize, MaxRootVolumeSize + 1}

Configs ==
  [environments : {DeclaredEnvs},
   env_regions : [Envs -> RunRegionLists],
   subnets : SubnetChoices,
   root_volume_size : VolumeSizes,
   rejects : SUBSET Regions]

ConfiguredRegions(envs, settings) ==
  UNION {Range(settings[envs[i]]) : i \in DOMAIN envs}

Posted == {posts[i].region : i \in DOMAIN posts}
Failed == {posts[i].region : i \in {j \in DOMAIN posts : ~posts[j].ok}}

RECURSIVE SumOver(_, _)
SumOver(f, S) ==
  IF S = {} THEN 0
  ELSE LET x == CHOOSE y \in S : TRUE IN f[x] + SumOver(f, S \ {x})

(***************************************************************************)
(* clean_pipelines(app, settings), line 139: every generated pipeline of   *)
(* the application is deleted; a deletion may fail and is then only        *)
(* logged.  When nothing could be deleted and a pipeline that the run is   *)
(* about to create is still there, the step fails.                         *)
(***************************************************************************)
Kept == {k \in [Regions -> 0..MaxCopies] : \A r \in Regions : k[r] <= remote[r]}

CleanConflict(k) ==
  /\ SumOver(remote, Regions) > 0
  /\ SumOver(remote, Regions) = SumOver(k, Regions)
  /\ \E r \in ConfiguredRegions(environments, env_regions) : remote[r] > 0

Clean ==
  /\ pc = "clean"
  /\ \E k \in Kept :
       /\ remote' = k
       /\ IF CleanConflict(k)
          THEN /\ pc' = "done"
               /\ result' = StaleConflict
               /\ UNCHANGED completed
          ELSE /\ pc' = "matrix"
               /\ completed' = completed \cup {"clean"}
               /\ UNCHANGED result
  /\ UNCHANGED <<config, regions_envs, pipelines, posts, repeat_ok>>
  /\ UNCHANGED runner_vars

\* lines 141-151
ResolveMatrix ==
  /\ pc = "matrix"
  /\ regions_envs' = Matrix(environments, env_regions)
  /\ completed' = completed \cup {"resolve"}
  /\ pc' = "loop"
  /\ UNCHANGED <<config, remote, pipelines, posts, result, repeat_ok>>
  /\ UNCHANGED runner_vars

\* lines 154-178: one iteration of the loop over regions_envs.items()
RenderRegion(region) ==
  /\ pc = "loop"
  /\ region \in DOMAIN regions_envs \ DOMAIN pipelines
  /\ IF WrapperAccepts(root_volume_size)
     THEN /\ pipelines' =
               pipelines @@ (region :> AssembleRegion(region, regions_envs[region], subnets))
          /\ UNCHANGED <<pc, result>>
     ELSE /\ pc' = "done"
          /\ result' = VolumeFailure
          /\ UNCHANGED pipelines
  /\ UNCHANGED <<config, remote, completed, regions_envs, posts, repeat_ok>>
  /\ UNCHANGED runner_vars

\* The loop of lines 182-185 starts when the loop of lines 154-178 has ended.
CanPostEarly(region) == region \in DOMAIN pipelines \ Posted

\* The same loop offering a region again after its POST:
CanPostAgain(region) ==
  /\ DOMAIN pipelines = DOMAIN regions_envs
  /\ region \in DOMAIN pipelines

CanPost(region) ==
  /\ DOMAIN pipelines = DOMAIN regions_envs
  /\ region \in DOMAIN pipelines \ Posted

\* What a successful POST leaves in the remote: the pipeline of that name is
\* created or replaced, or, the remote being free to, added beside the old one.
PostEffects(n) == {IF n = 0 THEN 1 ELSE n} \cup {m \in {n + 1} : n > 0 /\ m <= MaxCopies}

\* lines 182-185 without the renumerate_stages(pipeline) of line 183:
PostRegionUnnumbered(region) ==
  /\ pc = "loop"
  /\ CanPost(region)
  /\ LET pipeline == pipelines[region] IN
       /\ pipelines' = [pipelines EXCEPT ![region] = pipeline]
       /\ IF region \in rejects
          THEN \E text \in ErrorBodies :
                 /\ posts' = Append(posts, [region |-> region, stages |-> pipeline,
                                            ok |-> FALSE, body |-> text])
                 /\ result' = PostFailure(text)
                 /\ pc' = IF PostFailure(text) = NoResult THEN pc ELSE "done"
                 /\ UNCHANGED remote
          ELSE /\ posts' = Append(posts, [region |-> region, stages |-> pipeline,
                                          ok |-> TRUE, body |-> "created"])
               /\ remote' \in {[remote EXCEPT ![region] = n] : n \in PostEffects(remote[region])}
               /\ UNCHANGED <<pc, result>>
  /\ UNCHANGED <<config, completed, regions_envs, repeat_ok>>
  /\ UNCHANGED runner_vars

\* lines 182-185: renumerate_stages(pipeline), then post_pipeline(pipeline)
PostRegion(region) ==
  /\ pc = "loop"
  /\ CanPost(region)
  /\ LET pipeline == renumerate_stages(pipelines[region]) IN
       /\ pipelines' = [pipelines EXCEPT ![region] = pipeline]
       /\ IF region \in rejects
          THEN \E text \in ErrorBodies :
                 /\ posts' = Append(posts, [region |-> region, stages |-> pipeline,
                                            ok |-> FALSE, body |-> text])
                 /\ result' = PostFailure(text)
                 /\ pc' = IF PostFailure(text) = NoResult THEN pc ELSE "done"
                 /\ UNCHANGED remote
          ELSE /\ posts' = Append(posts, [region |-> region, stages |-> pipeline,
                                          ok |-> TRUE, body |-> "created"])
               /\ remote' \in {[remote EXCEPT ![region] = n] : n \in PostEffects(remote[region])}
               /\ UNCHANGED <<pc, result>>
  /\ UNCHANGED <<config, completed, regions_envs, repeat_ok>>
  /\ UNCHANGED runner_vars

\* "return True" of line 187 indented into the loop of lines 182-185:
ReturnInsideLoop ==
  /\ pc = "loop"
  /\ DOMAIN pipelines = DOMAIN regions_envs
  /\ (Posted # {} \/ DOMAIN pipelines = {})
  /\ result' = ReturnedTrue
  /\ pc' = "done"
  /\ UNCHANGED <<config, remote, completed, regions_envs, pipelines, posts, repeat_ok>>
  /\ UNCHANGED runner_vars

\* line 187
Return ==
  /\ pc = "loop"
  /\ DOMAIN pipelines = DOMAIN regions_envs
  /\ Posted = DOMAIN pipelines
  /\ result' = ReturnedTrue
  /\ pc' = "done"
  /\ UNCHANGED <<config, remote, completed, regions_envs, pipelines, posts, repeat_ok>>
  /\ UNCHANGED runner_vars

\* Between two invocations the configuration files or the subnet data change.
Reconfigure ==
  /\ pc \in {"done", "idle"}
  /\ \/ \E env \in Envs, regs \in RunRegionLists :
          /\ env_regions' = [env_regions EXCEPT ![env] = regs]
          /\ UNCHANGED <<subnets, root_volume_size>>
     \/ \E subs \in SubnetChoices :
          /\ subnets' = subs
          /\ UNCHANGED <<env_regions, root_volume_size>>
     \/ \E size \in VolumeSizes :
          /\ root_volume_size' = size
          /\ UNCHANGED <<env_regions, subnets>>
  /\ pc' = "idle"
  /\ completed' = {}
  /\ regions_envs' = EmptyMap
  /\ pipelines' = EmptyMap
  /\ posts' = <<>>
  /\ result' = NoResult
  /\ UNCHANGED <<environments, rejects, remote, repeat_ok>>
  /\ UNCHANGED runner_vars

\* The next invocation: a new SpinnakerPipeline (lines 29-46) and its create_pipeline.
NewRun ==
  /\ pc \in {"done", "idle"}
  /\ rejects' \in SUBSET Regions
  /\ repeat_ok' = (pc = "done" /\ result = ReturnedTrue)
  /\ pc' = "clean"
  /\ completed' = {}
  /\ regions_envs' = EmptyMap
  /\ pipelines' = EmptyMap
  /\ posts' = <<>>
  /\ result' = NoResult
  /\ UNCHANGED <<environments, env_regions, subnets, root_volume_size, remote>>
  /\ UNCHANGED runner_vars

Init ==
  /\ \E c \in Configs :
       /\ environments = c.environments
       /\ env_regions = c.env_regions
       /\ subnets = c.subnets
       /\ root_volume_size = c.root_volume_size
       /\ rejects = c.rejects
  /\ remote = [r \in Regions |-> 0]
  /\ pc = "clean"
  /\ completed = {}
  /\ regions_envs = EmptyMap
  /\ pipelines = EmptyMap
  /\ posts = <<>>
  /\ result = NoResult
  /\ repeat_ok = FALSE
  /\ NoRunner

Next ==
  \/ Clean
  \/ ResolveMatrix
  \/ \E region \in Regions : RenderRegion(region)
  \/ \E region \in Regions : PostRegion(region)
  \/ Return
  \/ Reconfigure
  \/ NewRun

Spec == Init /\ [][Next]_vars

(***************************************************************************)
(* The matrix resolver on its own: every environment list and every region *)
(* list within the bounds, repeats included.                               *)
(***************************************************************************)
InitMatrix ==
  /\ environments \in SeqsUpTo(Envs, MaxEnvList)
  /\ env_regions \in [Envs -> SeqsUpTo(Regions, MaxRegionList)]
  /\ subnets = AllPairs
  /\ root_volume_size = MaxRootVolumeSize
  /\ rejects = {}
  /\ remote = [r \in Regions |-> 0]
  /\ pc = "matrix"
  /\ completed = {"clean"}
  /\ regions_envs = EmptyMap
  /\ pipelines = EmptyMap
  /\ posts = <<>>
  /\ result = NoResult
  /\ repeat_ok = FALSE
  /\ NoRunner

NextMatrix == ResolveMatrix

SpecMatrix == InitMatrix /\ [][NextMatrix]_vars

(***************************************************************************)
(* render_wrapper(region) on its own, lines 78-129, statement by           *)
(* statement: the root_volume_size check, the image lookup, the template.  *)
(* regions_envs holds the row of the region being rendered.                *)
(***************************************************************************)
WrapperSizes == (MaxRootVolumeSize - VolumeMargin)..(MaxRootVolumeSize + VolumeMargin)
WrapperReturned == [type |-> "returned", args |-> <<"wrapper">>]

\* lines 96-100
CheckVolume ==
  /\ pc = "render_wrapper"
  /\ IF WrapperAccepts(root_volume_size)
     THEN /\ pc' = "ami_lookup"
          /\ UNCHANGED result
     ELSE /\ pc' = "done"
          /\ result' = VolumeFailure
  /\ UNCHANGED <<config, remote, completed, regions_envs, pipelines, posts, repeat_ok>>
  /\ UNCHANGED runner_vars

\* lines 102-103
AmiLookup ==
  /\ pc = "ami_lookup"
  /\ completed' = completed \cup {"ami_lookup"}
  /\ pc' = "get_template"
  /\ UNCHANGED <<config, remote, regions_envs, pipelines, posts, result, repeat_ok>>
  /\ UNCHANGED runner_vars

\* lines 105-129
RenderTemplate ==
  /\ pc = "get_template"
  /\ \E region \in DOMAIN regions_envs : pipelines' = (region :> render_wrapper(region))
  /\ completed' = completed \cup {"get_template"}
  /\ pc' = "done"
  /\ result' = WrapperReturned
  /\ UNCHANGED <<config, remote, regions_envs, posts, repeat_ok>>
  /\ UNCHANGED runner_vars

InitWrapper ==
  /\ environments = DeclaredEnvs
  /\ env_regions = [env \in Envs |-> <<"us-east-1", "us-west-2">>]
  /\ subnets = AllPairs
  /\ root_volume_size \in WrapperSizes
  /\ rejects = {}
  /\ remote = [r \in Regions |-> 0]
  /\ pc = "render_wrapper"
  /\ completed = {"clean", "resolve"}
  /\ regions_envs \in {(region :> <<env>>) : region \in Regions, env \in Envs}
  /\ pipelines = EmptyMap
  /\ posts = <<>>
  /\ result = NoResult
  /\ repeat_ok = FALSE
  /\ NoRunner

NextWrapper == CheckVolume \/ AmiLookup \/ RenderTemplate

SpecWrapper == InitWrapper /\ [][NextWrapper]_vars

(***************************************************************************)
(* runner.py: ForemastRunner and the entry points.  Every method of the    *)
(* runner is one step; the entry point's body is the list of its calls.    *)
(***************************************************************************)
EntryPoints == {"prepare_infrastructure", "prepare_app_pipeline", "prepare_onetime_pipeline",
                "create_scaling_policy", "rebuild_pipelines"}
EnvValues == {None, ""} \cup Envs
ProjectKeys == {"forrest", "FORREST", "gump"}
RebuildValues == {None, "ALL", "all", "forrest", "Forrest", "GUMP"}
Apps == {[name |-> "tool"]}
          \cup {[name |-> "svc", repoProjectKey |-> key, repoSlug |-> "svc"] : key \in ProjectKeys}

\* str.lower()
Lower(text) ==
  CASE text \in {"FORREST", "Forrest"} -> "forrest"
    [] text = "GUMP" -> "gump"
    [] text = "ALL" -> "all"
    [] OTHER -> text

\* "if not onetime", line 79: None and the empty string are false.
Truthy(value) == value \notin {None, ""}

\* lines 79-83: the class create_pipeline constructs
PipelineClass(onetime) ==
  IF ~Truthy(onetime) THEN "SpinnakerPipeline" ELSE "SpinnakerPipelineOnetime"

\* lines 164-170: the branch on eureka
RunsElbDnsInverted(eureka) == eureka

RunsElbDns(eureka) == ~eureka

\* lines 212-213
MatchesAnyCaseAll(key, rebuild_project) ==
  Lower(key) = Lower(rebuild_project) \/ Lower(rebuild_project) = "all"

Matches(key, rebuild_project) ==
  Lower(key) = Lower(rebuild_project) \/ rebuild_project = "ALL"

\* The calls of an entry point's body, in order.
Program(e, eureka) ==
  CASE e = "prepare_infrastructure" ->
         <<"write_configs", "create_iam", "create_s3", "create_secgroups">>
           \o (IF RunsElbDns(eureka) THEN <<"create_elb", "create_dns">> ELSE <<>>)
           \o <<"slack_notify", "cleanup">>
    [] e = "prepare_app_pipeline" ->
         <<"create_app", "write_configs", "create_pipeline", "cleanup">>
    [] e = "prepare_onetime_pipeline" ->
         <<"write_configs", "create_pipeline", "cleanup">>
    [] e = "create_scaling_policy" ->
         <<"write_configs", "create_autoscaling_policy", "cleanup">>
    [] OTHER -> <<>>

\* The onetime argument the entry point gives create_pipeline: lines 181, 189, 220.
Onetime(e) == IF e = "prepare_onetime_pipeline" THEN environ.ENV ELSE None

\* A call of a runner constructed from PROJECT and GIT_REPO (lines 34-38), with
\* what the call made: the pipeline class, or the slack message.
Call(method, project, repo, made) ==
  [method |-> method, project |-> project, repo |-> repo, made |-> made]

AtCall(method) ==
  /\ entry # "rebuild_pipelines"
  /\ exit = None
  /\ rpc \in DOMAIN Program(entry, eureka_enabled)
  /\ Program(entry, eureka_enabled)[rpc] = method

Returns(method, made) ==
  /\ calls' = Append(calls, Call(method, environ.PROJECT, environ.GIT_REPO, made))
  /\ rpc' = rpc + 1
  /\ UNCHANGED <<entry, environ, eureka_enabled, all_apps, exit>>
  /\ UNCHANGED pipeline_vars

\* lines 50-57
WriteConfigs ==
  /\ AtCall("write_configs")
  /\ Returns("write_configs", None)
\* lines 59-66
CreateApp ==
  /\ AtCall("create_app")
  /\ Returns("create_app", None)
\* lines 68-85
CreatePipeline ==
  /\ AtCall("create_pipeline")
  /\ Returns("create_pipeline", PipelineClass(Onetime(entry)))
\* lines 87-90
CreateIam ==
  /\ AtCall("create_iam")
  /\ Returns("create_iam", None)
\* lines 92-95
CreateS3 ==
  /\ AtCall("create_s3")
  /\ Returns("create_s3", None)
\* lines 97-104
CreateSecgroups ==
  /\ AtCall("create_secgroups")
  /\ Returns("create_secgroups", None)
\* lines 106-113
CreateElb ==
  /\ AtCall("create_elb")
  /\ Returns("create_elb", None)
\* lines 115-124
CreateDns ==
  /\ AtCall("create_dns")
  /\ Returns("create_dns", None)
\* lines 126-134
CreateAutoscalingPolicy ==
  /\ AtCall("create_autoscaling_policy")
  /\ Returns("create_autoscaling_policy", None)
\* lines 136-146: the message is posted for ENV "prod" only
SlackNotify ==
  /\ AtCall("slack_notify")
  /\ Returns("slack_notify",
             IF environ.ENV = "prod" THEN "post_message" ELSE None)
\* lines 148-150
Cleanup ==
  /\ AtCall("cleanup")
  /\ Returns("cleanup", None)

\* rebuild_pipelines, lines 201-206
RebuildStart ==
  /\ entry = "rebuild_pipelines"
  /\ exit = None
  /\ rpc = 0
  /\ IF environ.REBUILD_PROJECT = None
     THEN /\ exit' = "SystemExit"
          /\ UNCHANGED rpc
     ELSE /\ rpc' = 1
          /\ UNCHANGED exit
  /\ UNCHANGED <<entry, environ, eureka_enabled, all_apps, calls>>
  /\ UNCHANGED pipeline_vars

\* rebuild_pipelines, lines 208-221: one iteration of the loop over all_apps
RebuildApp ==
  /\ entry = "rebuild_pipelines"
  /\ exit = None
  /\ rpc \in DOMAIN all_apps
  /\ LET app == all_apps[rpc] IN
       IF "repoProjectKey" \notin DOMAIN app
       THEN UNCHANGED <<environ, calls>>
       ELSE IF Matches(app.repoProjectKey, environ.REBUILD_PROJECT)
       THEN /\ environ' = [environ EXCEPT !.PROJECT = app.repoProjectKey,
                                          !.GIT_REPO = app.repoSlug]
            /\ calls' = calls \o
                 <<Call("write_configs", app.repoProjectKey, app.repoSlug, None),
                   Call("create_pipeline", app.repoProjectKey, app.repoSlug,
                        PipelineClass(None)),
                   Call("cleanup", app.repoProjectKey, app.repoSlug, None)>>
       ELSE UNCHANGED <<environ, calls>>
  /\ rpc' = rpc + 1
  /\ UNCHANGED <<entry, eureka_enabled, all_apps, exit>>
  /\ UNCHANGED pipeline_vars

\* The entry point's body has run to its end.
Finish ==
  /\ exit = None
  /\ IF entry = "rebuild_pipelines"
     THEN rpc = Len(all_apps) + 1
     ELSE rpc = Len(Program(entry, eureka_enabled)) + 1
  /\ exit' = "returned"
  /\ UNCHANGED <<entry, environ, eureka_enabled, all_apps, rpc, calls>>
  /\ UNCHANGED pipeline_vars

\* prepare_infrastructure reads configs[ENV] (line 162): ENV names an environment.
InitRunner ==
  /\ entry \in EntryPoints
  /\ environ \in [ENV : EnvValues, REBUILD_PROJECT : RebuildValues,
                  PROJECT : {"forrest"}, GIT_REPO : {"gump"}]
  /\ entry = "prepare_infrastructure" => environ.ENV \in Envs
  /\ eureka_enabled \in BOOLEAN
  /\ all_apps \in SeqsUpTo(Apps, MaxApps)
  /\ rpc = IF entry = "rebuild_pipelines" THEN 0 ELSE 1
  /\ calls = <<>>
  /\ exit = None
  /\ environments = DeclaredEnvs
  /\ env_regions = [env \in Envs |-> <<>>]
  /\ subnets = AllPairs
  /\ root_volume_size = MaxRootVolumeSize
  /\ rejects = {}
  /\ remote = [r \in Regions |-> 0]
  /\ pc = "idle"
  /\ completed = {}
  /\ regions_envs = EmptyMap
  /\ pipelines = EmptyMap
  /\ posts = <<>>
  /\ result = NoResult
  /\ repeat_ok = FALSE

NextRunner ==
  \/ WriteConfigs
  \/ CreateApp
  \/ CreatePipeline
  \/ CreateIam
  \/ CreateS3
  \/ CreateSecgroups
  \/ CreateElb
  \/ CreateDns
  \/ CreateAutoscalingPolicy
  \/ SlackNotify
  \/ Cleanup
  \/ RebuildStart
  \/ RebuildApp
  \/ Finish

SpecRunner == InitRunner /\ [][NextRunner]_vars

(***************************************************************************)
(* Claims.                                                                 *)
(***************************************************************************)
Resolved == "resolve" \in completed
Declares(env, region) == region \in Range(env_regions[env])
Times(env, region) ==
  Cardinality({i \in DOMAIN env_regions[env] : env_regions[env][i] = region})
\* Entries of a region's row that the first i declared environments account for.
RECURSIVE Upto(_, _)
Upto(region, i) ==
  IF i = 0 THEN 0 ELSE Upto(region, i - 1) + Times(environments[i], region)
NoRepeats ==
  \A env \in Envs : \A i, j \in DOMAIN env_regions[env] :
    env_regions[env][i] = env_regions[env][j] => i = j

\* C1: the matrix has a row for exactly the regions some listed environment
\* declares; a row holds exactly the environments declaring the region, in the
\* order of the environment list, one entry per occurrence of the region in the
\* environment's region list (so the row is the environment list filtered by
\* "declares the region" when no region list repeats a region).
C1_MatrixRows ==
  Resolved =>
    \A region \in Regions :
      LET declaring == {i \in DOMAIN environments : Declares(environments[i], region)}
          Test(env) == Declares(env, region)
      IN /\ region \in DOMAIN regions_envs <=> declaring # {}
         /\ region \in DOMAIN regions_envs =>
              LET row == regions_envs[region] IN
                /\ Range(row) = {environments[i] : i \in declaring}
                /\ Len(row) = Upto(region, Len(environments))
                /\ \A p \in DOMAIN row :
                     \E i \in declaring :
                       /\ Upto(region, i - 1) < p
                       /\ p <= Upto(region, i)
                       /\ row[p] = environments[i]
                /\ NoRepeats => row = SelectSeq(environments, Test)

\* The spec's example: dev in us-east-1, stage in both, prod in us-west-2.
C1_Witness ==
  /\ Resolved
  /\ environments = <<"dev", "stage", "prod">>
  /\ regions_envs = ("us-east-1" :> <<"dev", "stage">>) @@ ("us-west-2" :> <<"stage", "prod">>)

\* The delete step has returned before the first POST of a run.
CleanBeforePost == Posted # {} => "clean" \in completed

\* C2: in every run clean_pipelines has returned before any pipeline is posted,
\* and a run that returns True right after a run of the same configuration that
\* returned True leaves exactly one generated pipeline in each region of the matrix.
C2_CleanThenOnePerRegion ==
  /\ CleanBeforePost
  /\ (repeat_ok /\ pc = "done" /\ result = ReturnedTrue) =>
       \A region \in DOMAIN regions_envs : remote[region] = 1

\* C3: whenever the most recent run returned True, the remote holds at most one
\* generated pipeline of the application in each region.
C3_AtMostOnePerRegion ==
  (pc = "done" /\ result = ReturnedTrue) => \A region \in Regions : remote[region] <= 1

C5_OtherRegionsPosted ==
  (pc = "done" /\ Resolved /\ WrapperAccepts(root_volume_size)) =>
    \A region \in DOMAIN regions_envs : region \notin rejects => region \in Posted

\* C5 as amended: the first rejected POST ends the run.  Nothing is posted after
\* it, so a region whose turn would have come later is not posted even though the
\* remote would accept it; all regions of the matrix are posted only when the run
\* returns True.
C5_FirstFailureEndsRun ==
  /\ \A i \in DOMAIN posts : ~posts[i].ok => (i = Len(posts) /\ pc = "done")
  /\ (pc = "done" /\ Failed # {}) => result # ReturnedTrue
  /\ (pc = "done" /\ result = ReturnedTrue) =>
       (Posted = DOMAIN regions_envs /\ Failed = {})

C5_Witness ==
  /\ pc = "done"
  /\ Failed # {}
  /\ \E region \in DOMAIN regions_envs : region \notin rejects /\ region \notin Posted

C7_DeleteAfterAssemble ==
  "clean" \in completed =>
    (Resolved /\ \A region \in DOMAIN regions_envs : region \in DOMAIN pipelines)

\* C7 as amended: the steps of a run are strictly ordered as delete, resolve,
\* render and assemble every region, then renumber and post region by region.
\* The deletion comes first: while it runs nothing is resolved, rendered or
\* posted; a region is rendered only once the matrix is resolved; a region is
\* posted only once every region is rendered; and what is posted is the region's
\* assembled pipeline.
C7_StepOrder ==
  /\ pc = "clean" => (~Resolved /\ pipelines = EmptyMap /\ posts = <<>>)
  /\ Resolved => "clean" \in completed
  /\ DOMAIN pipelines # {} => Resolved
  /\ Posted # {} => DOMAIN pipelines = DOMAIN regions_envs
  /\ \A i \in DOMAIN posts : posts[i].stages = pipelines[posts[i].region]

C7_Witness ==
  /\ pc = "loop"
  /\ Cardinality(DOMAIN pipelines) = 2
  /\ Cardinality(Posted) = 1
  /\ "clean" \in completed

\* Whether the p-th environment of a region's row is rendered, and the number of
\* stages assembled once the first p environments of the row are done.
Rendered(region, p) == HasSubnets(subnets, regions_envs[region][p], region)
RECURSIVE BlockEnd(_, _)
BlockEnd(region, p) ==
  IF p = 0 THEN Len(WrapperShape)
  ELSE BlockEnd(region, p - 1)
         + (IF Rendered(region, p) THEN Len(BlockShape(regions_envs[region][p])) ELSE 0)
Payloads(stages) == {<<stages[j].frag, stages[j].k>> : j \in DOMAIN stages}
ExpectedPayloads(region) ==
  {<<"wrapper", k>> : k \in DOMAIN WrapperShape}
    \cup UNION {{<<regions_envs[region][p], k>> : k \in DOMAIN BlockShape(regions_envs[region][p])} :
                  p \in {q \in DOMAIN regions_envs[region] : Rendered(region, q)}}

\* C8: a posted pipeline has as many stages as the wrapper plus the blocks
\* rendered for its region; every stage of those fragments is there, once.
C8_StageCount ==
  \A i \in DOMAIN posts :
    LET region == posts[i].region
        stages == posts[i].stages
    IN /\ Len(stages) = BlockEnd(region, Len(regions_envs[region]))
       /\ Payloads(stages) = ExpectedPayloads(region)
       /\ Cardinality(Payloads(stages)) = Len(stages)

C8_Witness ==
  \E i \in DOMAIN posts :
    /\ posts[i].ok
    /\ regions_envs[posts[i].region] = <<"dev", "stage", "prod">>
    /\ Len(posts[i].stages) = 7

\* C9: an environment without subnet data for a region adds no stage to that
\* region's pipeline, while every other environment of the row adds its whole
\* block; missing subnet data never ends a run: a run that got past the delete
\* step, whose volume size is accepted and whose POSTs are all accepted, returns
\* True with every region of the matrix posted.
C9_MissingSubnetsSkipped ==
  /\ \A region \in DOMAIN pipelines :
       \A p \in DOMAIN regions_envs[region] :
         LET env == regions_envs[region][p]
             own == {j \in DOMAIN pipelines[region] : pipelines[region][j].frag = env}
         IN Cardinality(own) = IF Rendered(region, p) THEN Len(BlockShape(env)) ELSE 0
  /\ (pc = "done" /\ Resolved /\ WrapperAccepts(root_volume_size) /\ Failed = {}) =>
       (result = ReturnedTrue /\ Posted = DOMAIN regions_envs)

C9_Witness ==
  /\ pc = "done"
  /\ result = ReturnedTrue
  /\ Cardinality(Posted) = 2
  /\ \E region \in Posted :
       \E p, q \in DOMAIN regions_envs[region] :
         /\ p < q
         /\ ~Rendered(region, p)
         /\ Rendered(region, q)
         /\ \E j \in DOMAIN pipelines[region] :
              pipelines[region][j].frag = regions_envs[region][q]

\* C10: in a posted pipeline the wrapper's stages come first, in their order;
\* then, for each environment of the region's row that was not skipped, in row
\* order, that environment's stages as one contiguous block in their order.
C10_StageOrder ==
  \A i \in DOMAIN posts :
    LET region == posts[i].region
        stages == posts[i].stages
        row == regions_envs[region]
    IN /\ Len(stages) = BlockEnd(region, Len(row))
       /\ \A k \in DOMAIN WrapperShape :
            stages[k].frag = "wrapper" /\ stages[k].k = k
       /\ \A p \in DOMAIN row :
            Rendered(region, p) =>
              \A k \in DOMAIN BlockShape(row[p]) :
                /\ stages[BlockEnd(region, p - 1) + k].frag = row[p]
                /\ stages[BlockEnd(region, p - 1) + k].k = k

C10_Witness ==
  \E i \in DOMAIN posts :
    /\ posts[i].ok
    /\ regions_envs[posts[i].region] = <<"dev", "stage", "prod">>
    /\ ~HasSubnets(subnets, "stage", posts[i].region)
    /\ [j \in DOMAIN posts[i].stages |-> posts[i].stages[j].frag]
         = <<"wrapper", "wrapper", "dev", "dev", "prod", "prod">>

\* C11: in every pipeline handed to post_pipeline the identifiers are distinct,
\* and every stage's dependsOn holds only identifiers of stages of that pipeline
\* that are strictly smaller than the stage's own identifier: no stage depends
\* on itself, on a later stage or on a stage outside the pipeline.
C11_BackwardDependencies ==
  \A i \in DOMAIN posts :
    LET stages == posts[i].stages
        ids == {stages[j].id : j \in DOMAIN stages}
    IN /\ Cardinality(ids) = Len(stages)
       /\ \A j \in DOMAIN stages :
            \A d \in stages[j].dependsOn : d \in ids /\ d < stages[j].id

C11_Witness ==
  \E i \in DOMAIN posts :
    LET stages == posts[i].stages IN
      /\ Len(stages) = 7
      /\ \E j \in DOMAIN stages :
           /\ stages[j].frag = "prod"
           /\ stages[j].k = 2
           /\ stages[j].id = 7
           /\ stages[j].dependsOn = {5}
      /\ \E j \in DOMAIN stages :
           /\ stages[j].frag = "dev"
           /\ stages[j].k = 2
           /\ stages[j].dependsOn = {3}

\* C12: the requests of a run only ever grow by one request at a time, and the
\* request added is for a region the run has not posted yet and comes only
\* while no earlier request of the run was rejected: nothing is sent twice and
\* nothing is sent after a rejection.  (posts is emptied when a new run is set up.)
C12_NoRetry ==
  [][\/ posts' = posts
     \/ posts' = <<>>
     \/ /\ Len(posts') = Len(posts) + 1
        /\ SubSeq(posts', 1, Len(posts)) = posts
        /\ posts'[Len(posts')].region \notin Posted
        /\ Failed = {}]_vars

C12_Witness ==
  /\ pc = "done"
  /\ Len(posts) = 2
  /\ posts[1].ok
  /\ ~posts[2].ok
  /\ posts[1].region # posts[2].region

\* C14: while a request of the run exists, every region of the matrix has its
\* wrapper and blocks rendered; and a run that ended with the root_volume_size
\* failure of render_wrapper has sent no request at all although its
\* clean_pipelines step has returned.
C14_RenderAllBeforePosting ==
  /\ posts # <<>> =>
       (Resolved /\ DOMAIN pipelines = DOMAIN regions_envs
                 /\ DOMAIN regions_envs = ConfiguredRegions(environments, env_regions))
  /\ result = VolumeFailure =>
       (pc = "done" /\ posts = <<>> /\ "clean" \in completed)

C14_Witness ==
  /\ pc = "done"
  /\ result = VolumeFailure
  /\ "clean" \in completed
  /\ Cardinality(DOMAIN regions_envs) = 2
  /\ posts = <<>>

\* The environment most recently rendered among the first p of a region's row.
RECURSIVE LastRendered(_, _)
LastRendered(region, p) ==
  IF p = 0 THEN None
  ELSE IF Rendered(region, p) THEN regions_envs[region][p]
  ELSE LastRendered(region, p - 1)

\* C15: every stage of an environment's block was rendered with previous_env
\* being the closest earlier environment of the same region's row that was
\* rendered, and None when no earlier environment of that row was rendered; so a
\* skipped environment is nobody's previous_env and the first block of every
\* region has None.
C15_PreviousEnv ==
  \A region \in DOMAIN pipelines :
    LET row == regions_envs[region]
        stages == pipelines[region]
    IN \A j \in DOMAIN stages :
         IF stages[j].frag = "wrapper" THEN stages[j].previous_env = None
         ELSE \E p \in DOMAIN row :
                /\ row[p] = stages[j].frag
                /\ Rendered(region, p)
                /\ stages[j].previous_env = LastRendered(region, p - 1)

C15_Witness ==
  /\ Cardinality(DOMAIN pipelines) = 2
  /\ \E region \in DOMAIN pipelines :
       /\ regions_envs[region] = <<"dev", "stage", "prod">>
       /\ ~Rendered(region, 2)
       /\ \E j \in DOMAIN pipelines[region] :
            /\ pipelines[region][j].frag = "prod"
            /\ pipelines[region][j].previous_env = "dev"
  /\ \A region \in DOMAIN pipelines :
       \E j \in DOMAIN pipelines[region] :
         /\ pipelines[region][j].frag = "dev"
         /\ pipelines[region][j].previous_env = None

\* C16: when create_pipeline has returned True, the regions posted are exactly
\* the regions some environment declares, with one request each; and for a
\* region all of whose environments were skipped the request holds the
\* wrapper's stages and nothing else.
C16_OnePostPerDeclaredRegion ==
  (pc = "done" /\ result = ReturnedTrue) =>
    /\ Posted = ConfiguredRegions(environments, env_regions)
    /\ Len(posts) = Cardinality(Posted)
    /\ \A i \in DOMAIN posts :
         LET region == posts[i].region IN
           (\A p \in DOMAIN regions_envs[region] : ~Rendered(region, p)) =>
             /\ Len(posts[i].stages) = Len(WrapperShape)
             /\ \A j \in DOMAIN posts[i].stages : posts[i].stages[j].frag = "wrapper"

C16_Witness ==
  /\ pc = "done"
  /\ result = ReturnedTrue
  /\ Len(posts) = 2
  /\ \E i \in DOMAIN posts :
       LET region == posts[i].region IN
         /\ regions_envs[region] # <<>>
         /\ \A p \in DOMAIN regions_envs[region] : ~Rendered(region, p)
         /\ Len(posts[i].stages) = Len(WrapperShape)

\* C13: render_wrapper ends with the pipeline-creation failure exactly when
\* root_volume_size is above 50, a size of 50 or less going on to the image
\* lookup and the template; and when it fails, neither the image lookup nor the
\* template rendering has taken place.
C13_VolumeCheck ==
  /\ pc # "render_wrapper" =>
       (result = VolumeFailure <=> root_volume_size > MaxRootVolumeSize)
  /\ pc = "render_wrapper" => result = NoResult
  /\ result = VolumeFailure =>
       /\ pc = "done"
       /\ "ami_lookup" \notin completed
       /\ "get_template" \notin completed
       /\ pipelines = EmptyMap
  /\ (pc = "done" /\ root_volume_size <= MaxRootVolumeSize) =>
       /\ result = WrapperReturned
       /\ {"ami_lookup", "get_template"} \subseteq completed
       /\ pipelines # EmptyMap

C13_Witness ==
  /\ pc = "done"
  /\ root_volume_size = MaxRootVolumeSize + 1
  /\ result = VolumeFailure
  /\ "ami_lookup" \notin completed

\* C17 as claimed: whatever ENV is, unset and empty included, the pipeline that
\* prepare_onetime_pipeline makes create_pipeline build is SpinnakerPipelineOnetime.
C17_AlwaysOnetime ==
  entry = "prepare_onetime_pipeline" =>
    \A i \in DOMAIN calls :
      calls[i].method = "create_pipeline" => calls[i].made = "SpinnakerPipelineOnetime"

\* Two strings that differ in case only.
CaseClasses == {{"forrest", "FORREST", "Forrest"}, {"gump", "GUMP"}, {"all", "ALL"}}
SameIgnoringCase(a, b) == a = b \/ \E class \in CaseClasses : a \in class /\ b \in class
ShouldRebuild(app) ==
  /\ "repoProjectKey" \in DOMAIN app
  /\ \/ environ.REBUILD_PROJECT = "ALL"
     \/ SameIgnoringCase(app.repoProjectKey, environ.REBUILD_PROJECT)
Rebuilt == SelectSeq(calls, LAMBDA call : call.method = "create_pipeline")
Reached == SubSeq(all_apps, 1, IF rpc = 0 THEN 0 ELSE rpc - 1)
Selected == SelectSeq(Reached, ShouldRebuild)

\* C18: the pipelines rebuild_pipelines has rebuilt are, in order, those of the
\* applications its loop has gone through that have a repoProjectKey which
\* equals REBUILD_PROJECT ignoring case or with REBUILD_PROJECT being 'ALL', each
\* as a regular SpinnakerPipeline between a write_configs and a cleanup; the
\* loop goes through every application and returns; with REBUILD_PROJECT unset
\* the function ends with SystemExit and has rebuilt nothing, and it ends with
\* SystemExit in no other case.
C18_RebuildSelection ==
  entry = "rebuild_pipelines" =>
    /\ Len(Rebuilt) = Len(Selected)
    /\ Len(calls) = 3 * Len(Rebuilt)
    /\ \A i \in DOMAIN Rebuilt :
         /\ Rebuilt[i].project = Selected[i].repoProjectKey
         /\ Rebuilt[i].repo = Selected[i].repoSlug
         /\ Rebuilt[i].made = "SpinnakerPipeline"
         /\ calls[3 * i - 2].method = "write_configs"
         /\ calls[3 * i - 1] = Rebuilt[i]
         /\ calls[3 * i].method = "cleanup"
    /\ exit = "returned" => Reached = all_apps
    /\ exit = "SystemExit" => (environ.REBUILD_PROJECT = None /\ calls = <<>>)
    /\ (environ.REBUILD_PROJECT = None /\ exit # "SystemExit") => (rpc = 0 /\ exit = None)

C18_Witness ==
  /\ entry = "rebuild_pipelines"
  /\ exit = "returned"
  /\ environ.REBUILD_PROJECT = "forrest"
  /\ Len(all_apps) = 2
  /\ "repoProjectKey" \notin DOMAIN all_apps[1]
  /\ "repoProjectKey" \in DOMAIN all_apps[2]
  /\ all_apps[2].repoProjectKey = "FORREST"
  /\ Len(Rebuilt) = 1

InfrastructureCalls ==
  IF eureka_enabled
  THEN <<"write_configs", "create_iam", "create_s3", "create_secgroups",
         "slack_notify", "cleanup">>
  ELSE <<"write_configs", "create_iam", "create_s3", "create_secgroups",
         "create_elb", "create_dns", "slack_notify", "cleanup">>

\* C19: the calls prepare_infrastructure has made are always the first ones of
\* write_configs, create_iam, create_s3, create_secgroups, create_elb,
\* create_dns, slack_notify, cleanup, with create_elb and create_dns left out
\* when eureka_enabled is true and both there when it is false; and when
\* prepare_infrastructure returns it has made all of them.
C19_InfrastructureOrder ==
  entry = "prepare_infrastructure" =>
    /\ Len(calls) <= Len(InfrastructureCalls)
    /\ \A i \in DOMAIN calls : calls[i].method = InfrastructureCalls[i]
    /\ exit = "returned" => Len(calls) = Len(InfrastructureCalls)
    /\ exit # "SystemExit"

C19_Witness ==
  /\ entry = "prepare_infrastructure"
  /\ exit = "returned"
  /\ ~eureka_enabled
  /\ Len(calls) = 8
  /\ calls[5].method = "create_elb"
  /\ calls[6].method = "create_dns"

=============================================================================
